---- MODULE Spec2Model ----
(***************************************************************************)
(* Model of app.py: a Flask service with three endpoints (/predict,        *)
(* /update, /list-db-contents) around a fitted sklearn pipeline and a      *)
(* peewee table Prediction with a unique observation_id column.            *)
(*                                                                         *)
(* One action per endpoint; an action is one whole request/response cycle. *)
(* JSON null is the empty tuple None and a non-null scalar v that may be   *)
(* null is the one-element tuple <<v>>.  A probability is a whole number   *)
(* of percent.  A 200 response is [status |-> 200, json |-> body]; an      *)
(* exception that leaves the handler is [status |-> 500, exception |-> e]. *)
(* calls lists the collaborators the last handler called, in order, and    *)
(* DB_before is the table as that handler found it.                        *)
(***************************************************************************)
EXTENDS Integers, Sequences, FiniteSets, TLC

VARIABLES DB, DB_before, endpoint, req, response, calls

vars == <<DB, DB_before, endpoint, req, response, calls>>

\* Largest observation id a request carries.
MaxId == 2

None == <<>>

Some(v) == <<v>>

ObservationIds == 1..MaxId

\* ------------------------------------------------------------------------
\* Request bodies
\* ------------------------------------------------------------------------

necessary_columns ==
    {"age", "ca", "cp", "fbs", "oldpeak", "restecg", "sex", "thal", "trestbps"}

valid_sex == {0, 1}

valid_ca == {0, 1, 2, 3}

\* Data mappings that carry all nine columns and nothing else.  The checked
\* columns take values on both sides of each check.
FullData ==
    [age : {149, 150}, sex : {1, 2}, cp : {3}, trestbps : {49, 50},
     fbs : {1}, restecg : {0}, oldpeak : {9, 10}, ca : {3, 4}, thal : {1}]

\* d with the keys in drop removed and the keys in add set to 0.
Rekey(d, drop, add) ==
    [k \in ((DOMAIN d) \ drop) \cup add |-> IF k \in DOMAIN d THEN d[k] ELSE 0]

\* Data mappings with a column missing, an unknown column, or both.
MiskeyedData ==
    LET base == {d \in FullData : d.age = 149 /\ d.trestbps = 50 /\ d.oldpeak = 9}
    IN  UNION {{Rekey(d, {"thal"}, {}), Rekey(d, {}, {"chol"}),
                Rekey(d, {"sex", "thal"}, {"chol"})} : d \in base}

Datas == FullData \cup MiskeyedData

PredictRequests ==
    {[observation_id |-> i, data |-> d] : i \in ObservationIds, d \in Datas}
        \cup {[observation_id |-> i] : i \in ObservationIds}
        \cup {[data |-> d] : d \in Datas}
        \cup {[other |-> 0]}

TrueClasses == {0, 1}

UpdateRequests ==
    {[observation_id |-> i, true_class |-> t] : i \in ObservationIds, t \in TrueClasses}

\* ------------------------------------------------------------------------
\* Responses
\* ------------------------------------------------------------------------

jsonify(body) == [status |-> 200, json |-> body]

Raise(e) == [status |-> 500, exception |-> e]

\* A formatted message: its fixed text and the values formatted into it.
Format(text, args) == [text |-> text, args |-> args]

\* ------------------------------------------------------------------------
\* The fitted pipeline and the feature frame
\* ------------------------------------------------------------------------

DataFrame(data, index) == [index |-> index, row |-> data]

pipeline_predict_proba(X) ==
    (X.row.age + X.row.trestbps + 7 * X.row.sex + 3 * X.row.ca + X.row.oldpeak) % 101

pipeline_predict(X) == pipeline_predict_proba(X) >= 50

\* ------------------------------------------------------------------------
\* The Prediction table
\* ------------------------------------------------------------------------

\* TextField stores str(value).
TextField(value) == [text |-> value]

\* Mutant: the column defaults to class 0 instead of null.
Prediction_default_class(observation_id, proba, observation) ==
    [observation_id |-> observation_id, observation |-> observation,
     proba |-> proba, true_class |-> Some(0)]

Prediction(observation_id, proba, observation) ==
    [observation_id |-> observation_id, observation |-> observation,
     proba |-> proba, true_class |-> None]

ObservationIdsOf(db) == {db[k].observation_id : k \in 1..Len(db)}

\* Mutant: the column is declared without unique=True.
save_no_unique(db, p) ==
    [raised |-> FALSE,
     DB |-> Append(db, [id |-> Len(db) + 1,
                        observation_id |-> p.observation_id,
                        observation |-> [text |-> p.observation],
                        proba |-> p.proba,
                        true_class |-> p.true_class])]

\* p.save() of a new instance: INSERT, refused by the unique index.
save(db, p) ==
    IF p.observation_id \in ObservationIdsOf(db)
    THEN [raised |-> TRUE, DB |-> db]
    ELSE [raised |-> FALSE,
          DB |-> Append(db, [id |-> Len(db) + 1,
                             observation_id |-> p.observation_id,
                             observation |-> TextField(p.observation),
                             proba |-> p.proba,
                             true_class |-> p.true_class])]

\* Prediction.get(Prediction.observation_id == oid): row numbers that match.
get(db, oid) == {k \in 1..Len(db) : db[k].observation_id = oid}

\* Mutant: the listing leaves out the rows that have a true class.
select_unlabelled(db) == SelectSeq(db, LAMBDA row : row.true_class = <<>>)

\* Prediction.select() through model_to_dict.
select(db) == db

\* ------------------------------------------------------------------------
\* /predict
\* ------------------------------------------------------------------------

\* Each check of predict gives its error body, or None when it passes.

check_observation_id(r) ==
    IF "observation_id" \notin DOMAIN r
    THEN Some([observation_id |-> None,
               error |-> Format("Must supply observation_id", <<>>)])
    ELSE None

check_data(r) ==
    IF "data" \notin DOMAIN r
    THEN Some([observation_id |-> Some(r.observation_id),
               error |-> Format("Must supply data", <<>>)])
    ELSE None

check_missing_columns(r) ==
    LET actual_columns == DOMAIN r.data
    IN  IF ~(necessary_columns \subseteq actual_columns)
        THEN Some([observation_id |-> Some(r.observation_id),
                   error |-> Format("Missing columns: {}",
                                    <<necessary_columns \ actual_columns>>)])
        ELSE None

check_extra_columns(r) ==
    LET actual_columns == DOMAIN r.data
    IN  IF ~(actual_columns \subseteq necessary_columns)
        THEN Some([observation_id |-> Some(r.observation_id),
                   error |-> Format("Unrecognized columns provided: {}",
                                    <<actual_columns \ necessary_columns>>)])
        ELSE None

check_sex(r) ==
    LET sex == r.data.sex
    IN  IF sex \notin valid_sex
        THEN Some([observation_id |-> Some(r.observation_id),
                   error |-> Format("Invalid value provided for sex: {}. Allowed values are: {}",
                                    <<sex, valid_sex>>)])
        ELSE None

check_ca(r) ==
    LET ca == r.data.ca
    IN  IF ca \notin valid_ca
        THEN Some([observation_id |-> Some(r.observation_id),
                   error |-> Format("Invalid value provided for ca: {}. Allowed values are: {}",
                                    <<ca, valid_ca>>)])
        ELSE None

\* Mutant: the upper end of the age range is taken as inclusive.
check_age_inclusive(r) ==
    LET age == r.data.age
    IN  IF ~(0 <= age /\ age <= 150)
        THEN Some([observation_id |-> Some(r.observation_id),
                   error |-> Format("Invalid value provided for age: {}. Needs to be in [0, 150).",
                                    <<age>>)])
        ELSE None

check_age(r) ==
    LET age == r.data.age
    IN  IF ~(0 <= age /\ age < 150)
        THEN Some([observation_id |-> Some(r.observation_id),
                   error |-> Format("Invalid value provided for age: {}. Needs to be in [0, 150).",
                                    <<age>>)])
        ELSE None

check_trestbps(r) ==
    LET trestbps == r.data.trestbps
    IN  IF ~(50 <= trestbps /\ trestbps < 300)
        THEN Some([observation_id |-> Some(r.observation_id),
                   error |-> Format("Invalid value provided for trestbps: {}. Needs to be in [50, 300)",
                                    <<trestbps>>)])
        ELSE None

check_oldpeak(r) ==
    LET oldpeak == r.data.oldpeak
    IN  IF ~(oldpeak < 10)
        THEN Some([observation_id |-> Some(r.observation_id),
                   error |-> Format("Invalid value provided for oldpeak: {}. Needs to smaller than 10",
                                    <<oldpeak>>)])
        ELSE None

\* The checks on the columns' values, in the order of the code.
validate_values(r) ==
    IF check_sex(r) # None THEN check_sex(r)
    ELSE IF check_ca(r) # None THEN check_ca(r)
    ELSE IF check_age(r) # None THEN check_age(r)
    ELSE IF check_trestbps(r) # None THEN check_trestbps(r)
    ELSE check_oldpeak(r)

\* Mutant: the data key is looked for before the observation_id key.
validate_data_first(r) ==
    IF "data" \notin DOMAIN r
    THEN Some([observation_id |-> None, error |-> Format("Must supply data", <<>>)])
    ELSE IF check_observation_id(r) # None THEN check_observation_id(r)
    ELSE IF check_missing_columns(r) # None THEN check_missing_columns(r)
    ELSE IF check_extra_columns(r) # None THEN check_extra_columns(r)
    ELSE validate_values(r)

\* The validation part of predict: the error body of the first check that
\* fails, or None when every check passes.
validate(r) ==
    IF check_observation_id(r) # None THEN check_observation_id(r)
    ELSE IF check_data(r) # None THEN check_data(r)
    ELSE IF check_missing_columns(r) # None THEN check_missing_columns(r)
    ELSE IF check_extra_columns(r) # None THEN check_extra_columns(r)
    ELSE validate_values(r)

\* The rest of predict, after validation: frame, inference, store.
infer_and_store(db, r) ==
    LET X == DataFrame(r.data, r.observation_id)
        resp == [observation_id |-> Some(r.observation_id),
                 prediction |-> pipeline_predict(X),
                 probability |-> pipeline_predict_proba(X)]
        p == Prediction(r.observation_id, resp.probability, r.data)
        saved == save(db, p)
        made == <<"pd.DataFrame", "pipeline.predict", "pipeline.predict_proba",
                  "Prediction.save">>
    IN  IF saved.raised
        \* the handler of IntegrityError formats the unbound name _id: the
        \* NameError leaves predict before the error field is set and before
        \* DB.rollback() is called
        THEN [DB |-> saved.DB, response |-> Raise("NameError"), calls |-> made]
        ELSE [DB |-> saved.DB, response |-> jsonify(resp), calls |-> made]

\* Mutant: the record is stored as soon as the columns are known to be there,
\* before the values are checked.
predict_view_eager(db, r) ==
    LET err == validate(r)
    IN  IF err = None
        THEN infer_and_store(db, r)
        ELSE IF "observation_id" \in DOMAIN r /\ "data" \in DOMAIN r
                /\ DOMAIN r.data = necessary_columns
        THEN [DB |-> infer_and_store(db, r).DB, response |-> jsonify(err[1]),
              calls |-> <<"Prediction.save">>]
        ELSE [DB |-> db, response |-> jsonify(err[1]), calls |-> <<>>]

predict_view(db, r) ==
    LET err == validate(r)
    IN  IF err # None
        THEN [DB |-> db, response |-> jsonify(err[1]), calls |-> <<>>]
        ELSE infer_and_store(db, r)

predict ==
    \E r \in PredictRequests :
        LET out == predict_view(DB, r)
        IN  /\ endpoint' = "predict"
            /\ req' = r
            /\ DB_before' = DB
            /\ DB' = out.DB
            /\ response' = out.response
            /\ calls' = out.calls

\* ------------------------------------------------------------------------
\* /update
\* ------------------------------------------------------------------------

does_not_exist(raw) ==
    jsonify([error |-> Format("Observation ID: \"{}\" does not exist",
                              <<raw.observation_id>>)])

\* Mutant: an unknown observation id gets a new row.
update_view_upsert(db, raw) ==
    LET found == get(db, raw.observation_id)
    IN  IF found = {}
        THEN [DB |-> Append(db, [id |-> Len(db) + 1,
                                 observation_id |-> raw.observation_id,
                                 observation |-> TextField(<<>>),
                                 proba |-> 0,
                                 true_class |-> Some(raw.true_class)]),
              response |-> does_not_exist(raw),
              calls |-> <<"Prediction.get", "Prediction.save">>]
        ELSE LET k == CHOOSE j \in found : TRUE
                 p == [db[k] EXCEPT !.true_class = Some(raw.true_class)]
             IN  [DB |-> [db EXCEPT ![k] = p],
                  response |-> jsonify(p),
                  calls |-> <<"Prediction.get", "Prediction.save">>]

\* Mutant: the UPDATE has no WHERE clause and sets the class of every row.
update_view_all_rows(db, raw) ==
    LET found == get(db, raw.observation_id)
    IN  IF found = {}
        THEN [DB |-> db, response |-> does_not_exist(raw),
              calls |-> <<"Prediction.get">>]
        ELSE LET k == CHOOSE j \in found : TRUE
                 p == [db[k] EXCEPT !.true_class = Some(raw.true_class)]
             IN  [DB |-> [j \in 1..Len(db) |->
                            [db[j] EXCEPT !.true_class = Some(raw.true_class)]],
                  response |-> jsonify(p),
                  calls |-> <<"Prediction.get", "Prediction.save">>]

\* Mutant: a true class that is already set is kept.
update_view_once(db, raw) ==
    LET found == get(db, raw.observation_id)
    IN  IF found = {}
        THEN [DB |-> db, response |-> does_not_exist(raw),
              calls |-> <<"Prediction.get">>]
        ELSE LET k == CHOOSE j \in found : TRUE
                 p == IF db[k].true_class = None
                      THEN [db[k] EXCEPT !.true_class = Some(raw.true_class)]
                      ELSE db[k]
             IN  [DB |-> [db EXCEPT ![k] = p],
                  response |-> jsonify(p),
                  calls |-> <<"Prediction.get", "Prediction.save">>]

update_view(db, raw) ==
    LET found == get(db, raw.observation_id)
    IN  IF found = {}
        THEN [DB |-> db, response |-> does_not_exist(raw),
              calls |-> <<"Prediction.get">>]
        ELSE LET k == CHOOSE j \in found : TRUE
                 p == [db[k] EXCEPT !.true_class = Some(raw.true_class)]
             IN  [DB |-> [db EXCEPT ![k] = p],
                  response |-> jsonify(p),
                  calls |-> <<"Prediction.get", "Prediction.save">>]

update ==
    \E raw \in UpdateRequests :
        LET out == update_view(DB, raw)
        IN  /\ endpoint' = "update"
            /\ req' = raw
            /\ DB_before' = DB
            /\ DB' = out.DB
            /\ response' = out.response
            /\ calls' = out.calls

\* ------------------------------------------------------------------------
\* /list-db-contents
\* ------------------------------------------------------------------------

list_db_contents ==
    /\ endpoint' = "list-db-contents"
    /\ req' = None
    /\ DB_before' = DB
    /\ DB' = DB
    /\ response' = jsonify(select(DB))
    /\ calls' = <<"Prediction.select">>

\* ------------------------------------------------------------------------
\* Specification
\* ------------------------------------------------------------------------

Init ==
    /\ DB = <<>>
    /\ DB_before = <<>>
    /\ endpoint = "none"
    /\ req = None
    /\ response = None
    /\ calls = <<>>

Next == predict \/ update \/ list_db_contents

Spec == Init /\ [][Next]_vars

\* ------------------------------------------------------------------------
\* Properties
\* ------------------------------------------------------------------------

Rows(db) == {db[k] : k \in 1..Len(db)}

RowsOf(db, oid) == {row \in Rows(db) : row.observation_id = oid}

Called(name) == \E k \in 1..Len(calls) : calls[k] = name

\* The last request was a predict that got past validation: inference ran.
Accepted == endpoint = "predict" /\ Called("pipeline.predict_proba")

\* C1: in every reachable state the table holds at most one row per
\* observation_id.
C1_OneRecordPerObservationId ==
    \A j, k \in 1..Len(DB) :
        DB[j].observation_id = DB[k].observation_id => j = k

\* A second predict for a stored id has been refused by the table.
C1_Witness ==
    /\ Accepted
    /\ req.observation_id \in ObservationIdsOf(DB_before)
    /\ Len(DB) = 2

\* C2: a valid predict whose observation_id is already stored completes with
\* a normal response of observation_id, prediction, probability and error,
\* the failed insert is rolled back, and the table keeps the one original row.
C2_DuplicateStillAnswered ==
    (Accepted /\ req.observation_id \in ObservationIdsOf(DB_before)) =>
        /\ response.status = 200
        /\ DOMAIN response.json = {"observation_id", "prediction", "probability", "error"}
        /\ Called("DB.rollback")
        /\ DB = DB_before
        /\ Cardinality(RowsOf(DB, req.observation_id)) = 1

\* C3: an update for an observation_id with no row answers with the error
\* field only, naming the id, and leaves the table as it was.
C3_UpdateUnknownId ==
    (endpoint = "update" /\ req.observation_id \notin ObservationIdsOf(DB_before)) =>
        /\ response.status = 200
        /\ DOMAIN response.json = {"error"}
        /\ response.json.error =
               Format("Observation ID: \"{}\" does not exist", <<req.observation_id>>)
        /\ DB = DB_before

\* An update for an unknown id arrived while another id was stored.
C3_Witness ==
    /\ endpoint = "update"
    /\ req.observation_id \notin ObservationIdsOf(DB_before)
    /\ Len(DB_before) >= 1

\* C4: a predict whose body has no observation_id key is answered with
\* {observation_id: null, error: "Must supply observation_id"}, whatever the
\* rest of the body is.
C4_MissingObservationId ==
    (endpoint = "predict" /\ "observation_id" \notin DOMAIN req) =>
        /\ response.status = 200
        /\ DOMAIN response.json = {"observation_id", "error"}
        /\ response.json.observation_id = None
        /\ response.json.error.text = "Must supply observation_id"
        /\ response.json.error.args = <<>>

\* A predict without observation_id whose data has a column missing and an
\* unknown column has been answered.
C4_Witness ==
    /\ endpoint = "predict"
    /\ "observation_id" \notin DOMAIN req
    /\ "data" \in DOMAIN req
    /\ "thal" \notin DOMAIN req.data
    /\ "chol" \in DOMAIN req.data

HasColumn(r, c) == "data" \in DOMAIN r /\ c \in DOMAIN r.data

\* The nine checks as the specification lists them, (a) to (i).
Fails(n, r) ==
    CASE n = 1 -> "observation_id" \notin DOMAIN r
      [] n = 2 -> "data" \notin DOMAIN r
      [] n = 3 -> "data" \in DOMAIN r /\ \E c \in necessary_columns : ~HasColumn(r, c)
      [] n = 4 -> "data" \in DOMAIN r /\ \E c \in DOMAIN r.data : c \notin necessary_columns
      [] n = 5 -> HasColumn(r, "sex") /\ r.data.sex \notin {0, 1}
      [] n = 6 -> HasColumn(r, "ca") /\ r.data.ca \notin {0, 1, 2, 3}
      [] n = 7 -> HasColumn(r, "age") /\ ~(r.data.age >= 0 /\ r.data.age < 150)
      [] n = 8 -> HasColumn(r, "trestbps") /\ ~(r.data.trestbps >= 50 /\ r.data.trestbps < 300)
      [] n = 9 -> HasColumn(r, "oldpeak") /\ ~(r.data.oldpeak < 10)

ErrorText(n) ==
    CASE n = 1 -> "Must supply observation_id"
      [] n = 2 -> "Must supply data"
      [] n = 3 -> "Missing columns: {}"
      [] n = 4 -> "Unrecognized columns provided: {}"
      [] n = 5 -> "Invalid value provided for sex: {}. Allowed values are: {}"
      [] n = 6 -> "Invalid value provided for ca: {}. Allowed values are: {}"
      [] n = 7 -> "Invalid value provided for age: {}. Needs to be in [0, 150)."
      [] n = 8 -> "Invalid value provided for trestbps: {}. Needs to be in [50, 300)"
      [] n = 9 -> "Invalid value provided for oldpeak: {}. Needs to smaller than 10"

Failing(r) == {n \in 1..9 : Fails(n, r)}

FirstFailing(r) == CHOOSE n \in Failing(r) : \A m \in Failing(r) : n <= m

\* C5: the checks run in the order (a) to (i); a predict that fails several
\* is answered with the error of the first of them only, carrying the
\* observation_id (null if absent), and a predict reaches inference exactly
\* when none of the nine fails.
C5_FirstFailingCheckOnly ==
    endpoint = "predict" =>
        IF Failing(req) = {}
        THEN Accepted
        ELSE /\ ~Accepted
             /\ response.status = 200
             /\ DOMAIN response.json = {"observation_id", "error"}
             /\ response.json.error.text = ErrorText(FirstFailing(req))
             /\ response.json.observation_id =
                    (IF FirstFailing(req) = 1 THEN None ELSE Some(req.observation_id))

\* A predict failing the sex, age and oldpeak checks at once has been answered.
C5_Witness ==
    /\ endpoint = "predict"
    /\ Failing(req) = {5, 7, 9}

C7_UpdateSetsTrueClassOnly ==
    (endpoint = "update" /\ req.observation_id \in ObservationIdsOf(DB_before)) =>
        /\ Len(DB) = Len(DB_before)
        /\ \A k \in 1..Len(DB_before) :
               IF DB_before[k].observation_id = req.observation_id
               THEN /\ DB[k] = [DB_before[k] EXCEPT !.true_class = <<req.true_class>>]
                    /\ response = [status |-> 200, json |-> DB[k]]
               ELSE DB[k] = DB_before[k]

\* An update has labelled one of two stored rows, the other being labelled
\* differently.
C7_Witness ==
    /\ endpoint = "update"
    /\ req.observation_id \in ObservationIdsOf(DB_before)
    /\ \E row \in Rows(DB) :
           row.observation_id # req.observation_id /\ row.true_class # <<req.true_class>>

\* C8: a predict rejected by validation calls neither the model nor the
\* table and leaves the table as it was; the insert comes only after
\* validation has passed and after frame building and the two model calls.
C8_RejectedPredictHasNoEffect ==
    endpoint = "predict" =>
        /\ Failing(req) # {} => (calls = <<>> /\ DB = DB_before)
        /\ \A k \in 1..Len(calls) :
               calls[k] = "Prediction.save" =>
                   /\ Failing(req) = {}
                   /\ k = 4
                   /\ calls[1] = "pd.DataFrame"
                   /\ calls[2] = "pipeline.predict"
                   /\ calls[3] = "pipeline.predict_proba"
        /\ DB # DB_before => Called("Prediction.save")

\* A predict with all columns but a bad value was rejected while a row was
\* stored.
C8_Witness ==
    /\ endpoint = "predict"
    /\ Failing(req) = {9}
    /\ Len(DB_before) >= 1

\* C9: no request removes a row: the stored observation_ids only grow, and a
\* listing leaves the table as it was and returns every row.
C9_RecordsNeverRemoved ==
    /\ ObservationIdsOf(DB_before) \subseteq ObservationIdsOf(DB)
    /\ Len(DB_before) <= Len(DB)
    /\ endpoint = "list-db-contents" =>
           /\ DB = DB_before
           /\ response = [status |-> 200, json |-> DB]

\* A listing of two rows, one of them labelled.
C9_Witness ==
    /\ endpoint = "list-db-contents"
    /\ Len(DB) = 2
    /\ \E row \in Rows(DB) : row.true_class # None

\* C10: an update of a row that already has a true class is accepted like
\* the first, and a row's true class is the value of the latest update of
\* its id: an update sets it, any other request keeps it.
C10_LatestUpdateWins ==
    /\ Len(DB_before) <= Len(DB)
    /\ \A k \in 1..Len(DB_before) :
           IF endpoint = "update" /\ req.observation_id = DB_before[k].observation_id
           THEN /\ DB[k].true_class = <<req.true_class>>
                /\ response.status = 200
                /\ "error" \notin DOMAIN response.json
                /\ response.json.true_class = <<req.true_class>>
           ELSE DB[k].true_class = DB_before[k].true_class

\* An update has replaced a true class that a former update had set.
C10_Witness ==
    /\ endpoint = "update"
    /\ \E k \in 1..Len(DB_before) :
           /\ DB_before[k].observation_id = req.observation_id
           /\ DB_before[k].true_class # None
           /\ DB_before[k].true_class # <<req.true_class>>

====
